---- MODULE Spec2Model ----
(***************************************************************************)
(* State-machine model of the past-meetups list component                  *)
(* (PastMeetupsComponent): the search / date / attendance filters, the     *)
(* pagination signals and the values computed from them.                   *)
(*                                                                         *)
(* Conventions                                                             *)
(*  - A string is a sequence of one-character strings, so that             *)
(*    toLowerCase() and includes() are computed and not assumed.           *)
(*  - A Date is its numeric value (what >= compares), counted in ticks     *)
(*    since 1 January 2023, TicksPerDay ticks a day, local time           *)
(*    zone = UTC.                                                          *)
(*  - A JavaScript number that may be NaN or Infinity is a record          *)
(*    [kind, val] (see Num, PosInfinity, NaN).                             *)
(*  - The description of a meetup is display text only and is left out.    *)
(***************************************************************************)
EXTENDS Integers, Sequences, FiniteSets, TLC

----------------------------------------------------------------------------
(* Bounds of the model                                                     *)

\* Largest page number passed to goToPage, and the cap on nextPage when
\* totalPages is Infinity.
MaxPage == 4

\* Largest attendance count for which the three buckets are compared.
MaxAttendance == 60

----------------------------------------------------------------------------
(* Strings                                                                 *)

UpperChars == <<"A","B","C","D","E","F","G","H","I","J","K","L","M",
                "N","O","P","Q","R","S","T","U","V","W","X","Y","Z">>
LowerChars == <<"a","b","c","d","e","f","g","h","i","j","k","l","m",
                "n","o","p","q","r","s","t","u","v","w","x","y","z">>

\* The characters of the texts of the model
Chars ==
  {UpperChars[i] : i \in 1..Len(UpperChars)} \cup
  {LowerChars[i] : i \in 1..Len(LowerChars)} \cup
  {" ", "#", "0", "1", "2"}

\* String.prototype.toLowerCase, one character
ToLowerChar(c) ==
  IF \E i \in 1..Len(UpperChars) : UpperChars[i] = c
  THEN LowerChars[CHOOSE i \in 1..Len(UpperChars) : UpperChars[i] = c]
  ELSE c

\* ToLowerChar, tabulated
LowerTable == [c \in Chars |-> ToLowerChar(c)]

\* String.prototype.toLowerCase
ToLowerCase(s) == [i \in 1..Len(s) |-> LowerTable[s[i]]]

\* String.prototype.includes
Includes(s, sub) ==
  \E i \in 0..(Len(s) - Len(sub)) : SubSeq(s, i + 1, i + Len(sub)) = sub

----------------------------------------------------------------------------
(* Dates                                                                   *)

\* Ticks of the clock in a day (the time of day of a Date).
TicksPerDay == 2

IsLeap(y) == (y % 4 = 0 /\ y % 100 # 0) \/ y % 400 = 0

\* month is 0-based, as in Date.getMonth()
DaysInMonth(y, m) ==
  IF m = 1 THEN (IF IsLeap(y) THEN 29 ELSE 28)
  ELSE IF m \in {3, 5, 8, 10} THEN 30 ELSE 31

RECURSIVE DaysBeforeMonth(_, _)
DaysBeforeMonth(y, m) ==
  IF m = 0 THEN 0 ELSE DaysBeforeMonth(y, m - 1) + DaysInMonth(y, m - 1)

RECURSIVE DaysBeforeYear(_)
DaysBeforeYear(y) ==
  IF y = 2023 THEN 0
  ELSE IF y > 2023
       THEN DaysBeforeYear(y - 1) + (IF IsLeap(y - 1) THEN 366 ELSE 365)
       ELSE DaysBeforeYear(y + 1) - (IF IsLeap(y) THEN 366 ELSE 365)

\* The time value of the local date (y, m, d) at tick t, normalised as the
\* Date setters do: a month outside 0..11 carries into the year, a day past
\* the end of the month carries into the next month.
MakeTime(y, m, d, t) ==
  LET yy == y + (m \div 12)
      mm == m % 12
  IN  (DaysBeforeYear(yy) + DaysBeforeMonth(yy, mm) + (d - 1)) * TicksPerDay + t

\* new Date('YYYY-MM-DD'): midnight of that day (month 1-based in the text)
DateOf(y, month, d) == MakeTime(y, month - 1, d, 0)

\* Wall-clock readings of new Date(): [year, month (0-based), day, tick]
Clock(y, month, d, t) == [year |-> y, month |-> month - 1, day |-> d, tick |-> t]
ClockTime(c) == MakeTime(c.year, c.month, c.day, c.tick)

Nows == << Clock(2024, 5, 31, 1), Clock(2024, 9, 10, 1), Clock(2025, 1, 20, 0) >>

----------------------------------------------------------------------------
(* The meetup records                                                      *)

Meetup(i, t, p, dt, total, new, regular) ==
  [id |-> i, title |-> t, presenter |-> p, date |-> dt,
   totalAttendance |-> total, newRegistrations |-> new,
   regularAttendees |-> regular]

\* The mock data the meetups signal is constructed with
MockMeetups == <<
  Meetup(1,
         <<"J","a","v","a"," ","M","e","e","t","u","p"," ","#","1","0">>,
         <<"J","o","h","n"," ","D","o","e">>,
         DateOf(2024, 8, 15), 45, 12, 33),
  Meetup(2,
         <<"S","p","r","i","n","g"," ","B","o","o","t"," ","D","e","e","p"," ","D","i","v","e">>,
         <<"J","a","n","e"," ","S","m","i","t","h">>,
         DateOf(2024, 7, 20), 38, 8, 30),
  Meetup(3,
         <<"M","i","c","r","o","s","e","r","v","i","c","e","s"," ","A","r","c","h","i","t","e","c","t","u","r","e">>,
         <<"B","o","b"," ","W","i","l","s","o","n">>,
         DateOf(2024, 6, 18), 52, 15, 37),
  Meetup(4,
         <<"J","a","v","a"," ","2","1"," ","F","e","a","t","u","r","e","s">>,
         <<"A","l","i","c","e"," ","J","o","h","n","s","o","n">>,
         DateOf(2024, 5, 16), 41, 10, 31),
  Meetup(5,
         <<"T","e","s","t","i","n","g"," ","S","t","r","a","t","e","g","i","e","s">>,
         <<"C","h","a","r","l","i","e"," ","B","r","o","w","n">>,
         DateOf(2024, 4, 14), 29, 6, 23),
  Meetup(6,
         <<"C","l","o","u","d"," ","N","a","t","i","v","e"," ","J","a","v","a">>,
         <<"D","i","a","n","a"," ","P","r","i","n","c","e">>,
         DateOf(2024, 3, 12), 47, 13, 34) >>

\* Records as a service in place of the mock data may supply them: the mock
\* records, dated around the turn of the year
NewYearMeetups == <<
  Meetup(1,
         <<"J","a","v","a"," ","M","e","e","t","u","p"," ","#","1","0">>,
         <<"J","o","h","n"," ","D","o","e">>,
         DateOf(2023, 12, 31), 45, 12, 33),
  Meetup(2,
         <<"S","p","r","i","n","g"," ","B","o","o","t"," ","D","e","e","p"," ","D","i","v","e">>,
         <<"J","a","n","e"," ","S","m","i","t","h">>,
         DateOf(2024, 1, 1), 38, 8, 30),
  Meetup(3,
         <<"M","i","c","r","o","s","e","r","v","i","c","e","s"," ","A","r","c","h","i","t","e","c","t","u","r","e">>,
         <<"B","o","b"," ","W","i","l","s","o","n">>,
         DateOf(2024, 1, 2), 52, 15, 37),
  Meetup(4,
         <<"J","a","v","a"," ","2","1"," ","F","e","a","t","u","r","e","s">>,
         <<"A","l","i","c","e"," ","J","o","h","n","s","o","n">>,
         DateOf(2024, 12, 31), 41, 10, 31),
  Meetup(5,
         <<"T","e","s","t","i","n","g"," ","S","t","r","a","t","e","g","i","e","s">>,
         <<"C","h","a","r","l","i","e"," ","B","r","o","w","n">>,
         DateOf(2025, 1, 1), 29, 6, 23),
  Meetup(6,
         <<"C","l","o","u","d"," ","N","a","t","i","v","e"," ","J","a","v","a">>,
         <<"D","i","a","n","a"," ","P","r","i","n","c","e">>,
         DateOf(2025, 1, 2), 47, 13, 34) >>

DateFilterType == {"all", "lastMonth", "last3Months", "last6Months", "thisYear"}
AttendanceFilterType == {"all", "low", "medium", "high"}

\* Texts typed into the search box
SearchTerms == { <<>>, <<"J","a","v","a">>, <<"j","a">>, <<"z","z">> }

\* Values given to itemsPerPage.set
PageSizes == {-1, 0, 2, 5}

----------------------------------------------------------------------------
(* JavaScript numbers that need not be integers                            *)

Num(n) == [kind |-> "num", val |-> n]
PosInfinity == [kind |-> "inf", val |-> 0]
NaN == [kind |-> "nan", val |-> 0]

\* n < x and n <= x, for an integer n
JsLess(n, x) ==
  CASE x.kind = "num" -> n < x.val
    [] x.kind = "inf" -> TRUE
    [] x.kind = "nan" -> FALSE

JsLessEq(n, x) ==
  CASE x.kind = "num" -> n <= x.val
    [] x.kind = "inf" -> TRUE
    [] x.kind = "nan" -> FALSE

\* Math.ceil(a / b) for integers a >= 0 and b  (-0 is 0)
CeilDiv(a, b) ==
  IF b > 0 THEN Num((a + b - 1) \div b)
  ELSE IF b < 0 THEN Num(0 - (a \div (0 - b)))
  ELSE IF a = 0 THEN NaN ELSE PosInfinity

\* Math.max, integers
MathMax(a, b) == IF a >= b THEN a ELSE b

\* Math.min(x, n), n an integer
MathMin(x, n) ==
  CASE x.kind = "num" -> Num(IF x.val <= n THEN x.val ELSE n)
    [] x.kind = "inf" -> Num(n)
    [] x.kind = "nan" -> NaN

\* Array.prototype.slice(a, b), 0-based, a negative index counts from the end
JsSlice(s, a, b) ==
  LET n == Len(s)
      k == IF a < 0 THEN MathMax(n + a, 0) ELSE (IF a < n THEN a ELSE n)
      f == IF b < 0 THEN MathMax(n + b, 0) ELSE (IF b < n THEN b ELSE n)
  IN  SubSeq(s, k + 1, f)

----------------------------------------------------------------------------
(* State                                                                   *)

VARIABLES
  meetups,           \* the meetups signal
  searchTerm,        \* signal
  dateFilter,        \* signal
  attendanceFilter,  \* signal
  currentPage,       \* signal
  itemsPerPage,      \* signal
  evalNow,           \* index in Nows of the clock reading (new Date()) of the
                     \* evaluation that produced the memoised filteredMeetups
  lastOp,            \* history: the operation that led to this state
  lastArg            \* history: its numeric argument (0 if it has none)

pastVars == <<meetups, searchTerm, dateFilter, attendanceFilter, currentPage,
              itemsPerPage, evalNow, lastOp, lastArg>>

----------------------------------------------------------------------------
(* filteredMeetups                                                         *)

\* SearchMatches with the presenter forgotten
SearchMatchesTitleOnly(meetup, search) ==
  Includes(ToLowerCase(meetup.title), search)

\* The search predicate of the first filter() call; search is already lower case
SearchMatches(meetup, search) ==
  \/ Includes(ToLowerCase(meetup.title), search)
  \/ Includes(ToLowerCase(meetup.presenter), search)

\* filterDate after the switch, from the clock reading now
FilterDate(df, now) ==
  CASE df = "lastMonth"   -> MakeTime(now.year, now.month - 1, now.day, now.tick)
    [] df = "last3Months" -> MakeTime(now.year, now.month - 3, now.day, now.tick)
    [] df = "last6Months" -> MakeTime(now.year, now.month - 6, now.day, now.tick)
    [] df = "thisYear"    -> MakeTime(now.year, 0, 1, now.tick)
    [] OTHER              -> ClockTime(now)

\* The predicate of the second filter() call
DateMatches(meetup, df, now) == meetup.date >= FilterDate(df, now)

\* AttendanceMatches with the bounds of medium exclusive
AttendanceMatchesExclusive(meetup, af) ==
  CASE af = "low"    -> meetup.totalAttendance < 20
    [] af = "medium" -> meetup.totalAttendance > 20 /\ meetup.totalAttendance < 50
    [] af = "high"   -> meetup.totalAttendance > 50
    [] OTHER         -> TRUE

\* The predicate of the third filter() call
AttendanceMatches(meetup, af) ==
  CASE af = "low"    -> meetup.totalAttendance < 20
    [] af = "medium" -> meetup.totalAttendance >= 20 /\ meetup.totalAttendance <= 50
    [] af = "high"   -> meetup.totalAttendance > 50
    [] OTHER         -> TRUE

\* SearchStage that collects the title matches, then the presenter matches
SearchStageTitlesFirst(list, term) ==
  LET search == ToLowerCase(term)
  IN  IF search # <<>>
      THEN SelectSeq(list, LAMBDA m : Includes(ToLowerCase(m.title), search))
           \o SelectSeq(list, LAMBDA m :
                  /\ ~Includes(ToLowerCase(m.title), search)
                  /\ Includes(ToLowerCase(m.presenter), search))
      ELSE list

\* The search filter
SearchStage(list, term) ==
  LET search == ToLowerCase(term)
  IN  IF search # <<>>
      THEN SelectSeq(list, LAMBDA m : SearchMatches(m, search))
      ELSE list

\* DateStage without the test for all
DateStageAlways(list, df, now) ==
  SelectSeq(list, LAMBDA m : DateMatches(m, df, now))

\* The date filter
DateStage(list, df, now) ==
  IF df # "all"
  THEN SelectSeq(list, LAMBDA m : DateMatches(m, df, now))
  ELSE list

\* The attendance filter
AttendanceStage(list, af) ==
  IF af # "all"
  THEN SelectSeq(list, LAMBDA m : AttendanceMatches(m, af))
  ELSE list

\* The computed filteredMeetups, as a function of what it reads
FilterMeetups(list, term, df, af, now) ==
  AttendanceStage(DateStage(SearchStage(list, term), df, now), af)

filteredMeetups ==
  FilterMeetups(meetups, searchTerm, dateFilter, attendanceFilter, Nows[evalNow])

----------------------------------------------------------------------------
(* Pagination                                                              *)

totalPages == CeilDiv(Len(filteredMeetups), itemsPerPage)

\* StartIndexOf with the page number taken as 0-based
StartIndexOfZeroBased(page) == page * itemsPerPage

\* startIndex, for the page number page
StartIndexOf(page) == (page - 1) * itemsPerPage

startIndex == StartIndexOf(currentPage)

\* paginatedMeetups, for the page number page
PageOf(page) ==
  LET start == StartIndexOf(page)
  IN  JsSlice(filteredMeetups, start, start + itemsPerPage)

paginatedMeetups == PageOf(currentPage)

\* getPageNumbers() with the start of the window not held at page 1
getPageNumbersUnclamped ==
  LET total == totalPages
      current == currentPage
      start == current - 2
      end == MathMin(total, start + 4)
  IN  IF end.kind = "num" /\ start <= end.val
      THEN [i \in 1..(end.val - start + 1) |-> start + i - 1]
      ELSE <<>>

\* getPageNumbers()
getPageNumbers ==
  LET total == totalPages
      current == currentPage
      start == MathMax(1, current - 2)
      end == MathMin(total, start + 4)
  IN  IF end.kind = "num" /\ start <= end.val
      THEN [i \in 1..(end.val - start + 1) |-> start + i - 1]
      ELSE <<>>

----------------------------------------------------------------------------
(* The other components: HomeComponent and AuthComponent                   *)
(* Each component is a route of its own; a specification runs one of them  *)
(* and leaves the others as constructed.                                   *)

VARIABLES
  newRegistrations,  \* HomeComponent: signal
  returningMembers,  \* HomeComponent: signal
  qrDataUrl,         \* HomeComponent: signal, Null or a data URL
  isLoadingQr,       \* HomeComponent: signal
  qrPc,              \* HomeComponent: where createQrCode() is
  homeOp             \* history: the last HomeComponent call and its arguments

VARIABLES
  authMode,                    \* AuthComponent: signal
  isSubmitting,                \* AuthComponent: signal
  showForgotPasswordForm,      \* AuthComponent: signal
  isSubmittingForgotPassword,  \* AuthComponent: signal
  forgotPasswordSuccess,       \* AuthComponent: signal
  signinForm,                  \* AuthComponent: FormGroup
  signupForm,                  \* AuthComponent: FormGroup
  forgotPasswordForm,          \* AuthComponent: FormGroup
  submissions,                 \* onSubmit() calls waiting in their handler
  forgotSubmissions,           \* onForgotPasswordSubmit() calls waiting
  successTimers,               \* pending setTimeout(..., 5000) callbacks
  authOp                       \* history: the last AuthComponent call

homeVars == <<newRegistrations, returningMembers, qrDataUrl, isLoadingQr, qrPc,
              homeOp>>

authVars == <<authMode, isSubmitting, showForgotPasswordForm,
              isSubmittingForgotPassword, forgotPasswordSuccess, signinForm,
              signupForm, forgotPasswordForm, submissions, forgotSubmissions,
              successTimers, authOp>>

vars == <<pastVars, homeVars, authVars>>

\* null
Null == "<null>"

\* HomeComponent after its constructor: createQrCode() has run up to its
\* first await
HomeInit ==
  /\ newRegistrations = 32
  /\ returningMembers = 96
  /\ qrDataUrl = Null
  /\ isLoadingQr = TRUE
  /\ qrPc = "awaitImport"
  /\ homeOp = [op |-> "constructor", new |-> 0, returning |-> 0]

\* A FormGroup: the values of its controls and the controls that are touched
Form(values) == [value |-> values, touched |-> {}]

\* AuthComponent after its constructor
AuthInit ==
  /\ authMode = "signin"
  /\ isSubmitting = FALSE
  /\ showForgotPasswordForm = FALSE
  /\ isSubmittingForgotPassword = FALSE
  /\ forgotPasswordSuccess = FALSE
  /\ signinForm = Form([email |-> "", password |-> ""])
  /\ signupForm = Form([firstName |-> "", lastName |-> "", email |-> "",
                        password |-> "", confirmPassword |-> "",
                        acceptTerms |-> "false"])
  /\ forgotPasswordForm = Form([email |-> ""])
  /\ submissions = <<>>
  /\ forgotSubmissions = 0
  /\ successTimers = 0
  /\ authOp = "constructor"

----------------------------------------------------------------------------
(* Operations                                                              *)

\* The initial values of the signals of the query
SignalsInit ==
  /\ searchTerm = <<>>
  /\ dateFilter = "all"
  /\ attendanceFilter = "all"
  /\ currentPage = 1
  /\ itemsPerPage = 5
  /\ evalNow \in 1..Len(Nows)
  /\ lastOp = "init"
  /\ lastArg = 0

Init ==
  /\ meetups = MockMeetups
  /\ SignalsInit
  /\ HomeInit
  /\ AuthInit

\* The component over records dated around the turn of the year
DateInit ==
  /\ meetups = NewYearMeetups
  /\ SignalsInit
  /\ HomeInit
  /\ AuthInit

\* A signal that filteredMeetups reads was set: when its value changed the
\* computed is evaluated again and reads the clock, which has not gone back;
\* when it did not change the memoised value stays.
Reevaluate(changed) ==
  IF changed
  THEN \E t \in evalNow..Len(Nows) : evalNow' = t
  ELSE evalNow' = evalNow

\* searchTerm.set(text)
SetSearchTerm(text) ==
  /\ searchTerm' = text
  /\ Reevaluate(text # searchTerm)
  /\ lastOp' = "setSearchTerm"
  /\ lastArg' = 0
  /\ UNCHANGED <<homeVars, authVars>>
  /\ UNCHANGED <<meetups, dateFilter, attendanceFilter, currentPage, itemsPerPage>>

\* dateFilter.set(value)
SetDateFilter(value) ==
  /\ dateFilter' = value
  /\ Reevaluate(value # dateFilter)
  /\ lastOp' = "setDateFilter"
  /\ lastArg' = 0
  /\ UNCHANGED <<homeVars, authVars>>
  /\ UNCHANGED <<meetups, searchTerm, attendanceFilter, currentPage, itemsPerPage>>

\* attendanceFilter.set(value)
SetAttendanceFilter(value) ==
  /\ attendanceFilter' = value
  /\ Reevaluate(value # attendanceFilter)
  /\ lastOp' = "setAttendanceFilter"
  /\ lastArg' = 0
  /\ UNCHANGED <<homeVars, authVars>>
  /\ UNCHANGED <<meetups, searchTerm, dateFilter, currentPage, itemsPerPage>>

\* itemsPerPage.set(n)
SetItemsPerPage(n) ==
  /\ itemsPerPage' = n
  /\ lastOp' = "setItemsPerPage"
  /\ lastArg' = 0
  /\ UNCHANGED <<homeVars, authVars>>
  /\ UNCHANGED <<meetups, searchTerm, dateFilter, attendanceFilter, currentPage,
                 evalNow>>

\* currentPage after nextPage()
NextPageResult ==
  IF JsLess(currentPage, totalPages) THEN currentPage + 1 ELSE currentPage

\* currentPage after previousPage()
PreviousPageResult ==
  IF currentPage > 1 THEN currentPage - 1 ELSE currentPage

\* goToPage that clamps a page number out of range instead of ignoring it
GoToPageResultClamped(page) ==
  IF page < 1 THEN 1
  ELSE IF JsLessEq(page, totalPages) THEN page
  ELSE IF totalPages.kind = "num" /\ totalPages.val >= 1 THEN totalPages.val
  ELSE currentPage

\* currentPage after goToPage(page)
GoToPageResult(page) ==
  IF page >= 1 /\ JsLessEq(page, totalPages) THEN page ELSE currentPage

\* nextPage(); the model stops counting at MaxPage
NextPage ==
  /\ NextPageResult <= MaxPage
  /\ currentPage' = NextPageResult
  /\ lastOp' = "nextPage"
  /\ lastArg' = 0
  /\ UNCHANGED <<homeVars, authVars>>
  /\ UNCHANGED <<meetups, searchTerm, dateFilter, attendanceFilter, itemsPerPage,
                 evalNow>>

\* previousPage()
PreviousPage ==
  /\ currentPage' = PreviousPageResult
  /\ lastOp' = "previousPage"
  /\ lastArg' = 0
  /\ UNCHANGED <<homeVars, authVars>>
  /\ UNCHANGED <<meetups, searchTerm, dateFilter, attendanceFilter, itemsPerPage,
                 evalNow>>

\* goToPage(page)
GoToPage(page) ==
  /\ currentPage' = GoToPageResult(page)
  /\ lastOp' = "goToPage"
  /\ lastArg' = page
  /\ UNCHANGED <<homeVars, authVars>>
  /\ UNCHANGED <<meetups, searchTerm, dateFilter, attendanceFilter, itemsPerPage,
                 evalNow>>

Next ==
  \/ \E text \in SearchTerms : SetSearchTerm(text)
  \/ \E value \in DateFilterType : SetDateFilter(value)
  \/ \E value \in AttendanceFilterType : SetAttendanceFilter(value)
  \/ \E n \in PageSizes : SetItemsPerPage(n)
  \/ NextPage
  \/ PreviousPage
  \/ \E page \in 0..MaxPage : GoToPage(page)

Spec == Init /\ [][Next]_vars

SpecDate == DateInit /\ [][Next]_vars

----------------------------------------------------------------------------
(* HomeComponent                                                           *)

\* Arguments given to updateAttendanceData
AttendanceInputs == {-3, 0, 1, 11, 32, 37, 47, 96}

\* Data URLs toDataURL resolves with
QrUrls == {"data:image/png;base64"}

\* How an awaited promise settles
Outcomes == {"resolved", "rejected"}

\* Math.round(num / den) of the exact quotient, num >= 0, den > 0
RoundHalfUp(num, den) == (2 * num + den) \div (2 * den)

\* The pairs (new, total), new <= total <= 200, for which the double
\* ((new / total) * 100 / 100) * 360 is just below k + 0.5 although the exact
\* value is k + 0.5 (IEEE 754 binary64, each operation rounded to nearest)
BelowHalfInDoubles ==
  { <<1, 48>>, <<11, 48>>, <<19, 48>>, <<35, 48>>, <<41, 48>>, <<47, 48>>,
    <<7, 80>>, <<23, 80>>, <<41, 80>>, <<51, 80>>,
    <<2, 96>>, <<22, 96>>, <<38, 96>>, <<70, 96>>, <<82, 96>>, <<94, 96>>,
    <<3, 144>>, <<13, 144>>, <<23, 144>>, <<33, 144>>, <<35, 144>>,
    <<37, 144>>, <<57, 144>>, <<61, 144>>, <<83, 144>>, <<95, 144>>,
    <<101, 144>>, <<105, 144>>, <<113, 144>>, <<123, 144>>, <<131, 144>>,
    <<141, 144>>,
    <<14, 160>>, <<46, 160>>, <<82, 160>>, <<102, 160>>,
    <<4, 192>>, <<44, 192>>, <<76, 192>>, <<140, 192>>, <<164, 192>>,
    <<188, 192>> }

\* newAngle: Math.round((newPercentage / 100) * 360) with
\* newPercentage = (new / total) * 100, computed in doubles
NewAngle(new, total) ==
  IF <<new, total>> \in BelowHalfInDoubles
  THEN RoundHalfUp(360 * new, total) - 1
  ELSE RoundHalfUp(360 * new, total)

\* A segment "color from-deg to-deg" of a conic-gradient
Segment(color, from, to) == [color |-> color, from |-> from, to |-> to]

\* The conic-gradient of pieChartGradient and of getPieChartGradient
PieChartGradient(new, total) ==
  IF total = 0
  THEN << Segment("#e5e7eb", 0, 360) >>
  ELSE LET newAngle == NewAngle(new, total)
       IN  << Segment("#10b981", 0, newAngle), Segment("#3b82f6", newAngle, 360) >>

\* PastMeetupsComponent.getPieChartGradient(meetup)
getPieChartGradient(meetup) ==
  PieChartGradient(meetup.newRegistrations, meetup.totalAttendance)

\* HomeComponent.attendanceData
attendanceData ==
  [newRegistrations |-> newRegistrations,
   returningMembers |-> returningMembers,
   total |-> newRegistrations + returningMembers]

\* HomeComponent.pieChartGradient
pieChartGradient ==
  LET data == attendanceData
  IN  PieChartGradient(data.newRegistrations, data.total)

\* A count stored as given
CountAsGiven(n) == n

\* Math.max(0, n) of updateAttendanceData
NonNegativeCount(n) == MathMax(0, n)

\* updateAttendanceData(new, returning)
UpdateAttendanceData(new, returning) ==
  /\ newRegistrations' = NonNegativeCount(new)
  /\ returningMembers' = NonNegativeCount(returning)
  /\ homeOp' = [op |-> "updateAttendanceData", new |-> new,
                returning |-> returning]
  /\ UNCHANGED <<qrDataUrl, isLoadingQr, qrPc>>
  /\ UNCHANGED <<pastVars, authVars>>

\* isLoadingQr left as it is when createQrCode() fails
LoadingOnlyClearedOnSuccess(outcome) ==
  IF outcome = "resolved" THEN FALSE ELSE isLoadingQr

\* isLoadingQr after the finally block of createQrCode()
LoadingAfterCreateQrCode(outcome) == FALSE

\* createQrCode(): the dynamic import settles.  Resolved: the payload is
\* built and toDataURL is called and awaited.  Rejected: catch, finally.
ImportSettles(outcome) ==
  /\ qrPc = "awaitImport"
  /\ IF outcome = "resolved"
     THEN /\ qrPc' = "awaitToDataURL"
          /\ UNCHANGED <<qrDataUrl, isLoadingQr>>
     ELSE /\ qrDataUrl' = Null
          /\ isLoadingQr' = LoadingAfterCreateQrCode(outcome)
          /\ qrPc' = "failed"
  /\ UNCHANGED <<newRegistrations, returningMembers, homeOp>>
  /\ UNCHANGED <<pastVars, authVars>>

\* createQrCode(): toDataURL settles.  Resolved with url: qrDataUrl.set(url),
\* finally.  Rejected: catch, finally.
ToDataUrlSettles(outcome, url) ==
  /\ qrPc = "awaitToDataURL"
  /\ IF outcome = "resolved"
     THEN /\ qrDataUrl' = url
          /\ qrPc' = "succeeded"
     ELSE /\ qrDataUrl' = Null
          /\ qrPc' = "failed"
  /\ isLoadingQr' = LoadingAfterCreateQrCode(outcome)
  /\ UNCHANGED <<newRegistrations, returningMembers, homeOp>>
  /\ UNCHANGED <<pastVars, authVars>>

ImportStep == \E outcome \in Outcomes : ImportSettles(outcome)

ToDataUrlStep ==
  \E outcome \in Outcomes : \E url \in QrUrls : ToDataUrlSettles(outcome, url)

HomeNext ==
  \/ \E new \in AttendanceInputs : \E returning \in AttendanceInputs :
       UpdateAttendanceData(new, returning)
  \/ ImportStep
  \/ ToDataUrlStep

\* An awaited promise settles
SpecHome ==
  Init /\ [][HomeNext]_vars /\ WF_vars(ImportStep) /\ WF_vars(ToDataUrlStep)

----------------------------------------------------------------------------
(* AuthComponent                                                           *)

\* Submissions awaiting their simulated call at the same time
MaxInFlight == 2

\* Password-reset requests awaiting their call or their 5 s timer
MaxForgotPending == 1

\* setTimeout(resolve, 1500) of handleSignin
SigninDelay == 1500

\* setTimeout(resolve, 2000) of handleSignup
SignupDelay == 2000

\* The inputs, among those typed, that match Validators.email's pattern
MatchingEmailPattern == {"ada@example.com"}

\* What the user types into the sign-in form
SigninContents ==
  { [email |-> "ada@example.com", password |-> "secret"],
    [email |-> "ada.example.com", password |-> "secret"],
    [email |-> "ada@example.com", password |-> "12345"] }

\* What the user types into the sign-up form
SignupContents ==
  { [firstName |-> "Ada", lastName |-> "Lovelace", email |-> "ada@example.com",
     password |-> "secret12", confirmPassword |-> "secret12",
     acceptTerms |-> "true"],
    [firstName |-> "Ada", lastName |-> "Lovelace", email |-> "ada@example.com",
     password |-> "secret12", confirmPassword |-> "secret13",
     acceptTerms |-> "true"],
    [firstName |-> "A", lastName |-> "Lovelace", email |-> "ada@example.com",
     password |-> "secret12", confirmPassword |-> "secret12",
     acceptTerms |-> "false"] }

\* What the user types into the forgot-password form
ForgotContents == { [email |-> "ada@example.com"] }

\* isEmptyInputValue of the validators: null or a length of 0
IsEmptyInput(v) == v = Null \/ v = ""

\* Validators.required
Required(v) == ~IsEmptyInput(v)

\* Validators.email
Email(v) == IsEmptyInput(v) \/ v \in MatchingEmailPattern

\* Validators.minLength(n)
MinLength(v, n) == IsEmptyInput(v) \/ Len(v) >= n

\* Validators.requiredTrue
RequiredTrue(v) == v = "true"

\* passwordMatchValidator: no error
PasswordsMatch(v) == v.password = v.confirmPassword

\* signinForm.valid
SigninValid(form) ==
  /\ Required(form.value.email) /\ Email(form.value.email)
  /\ Required(form.value.password) /\ MinLength(form.value.password, 6)

\* signupForm.valid
SignupValid(form) ==
  /\ Required(form.value.firstName) /\ MinLength(form.value.firstName, 2)
  /\ Required(form.value.lastName) /\ MinLength(form.value.lastName, 2)
  /\ Required(form.value.email) /\ Email(form.value.email)
  /\ Required(form.value.password) /\ MinLength(form.value.password, 8)
  /\ Required(form.value.confirmPassword)
  /\ RequiredTrue(form.value.acceptTerms)
  /\ PasswordsMatch(form.value)

\* forgotPasswordForm.valid
ForgotValid(form) ==
  Required(form.value.email) /\ Email(form.value.email)

isSigninMode == authMode = "signin"

\* The name of the form currentForm() returns
currentFormName == IF isSigninMode THEN "signinForm" ELSE "signupForm"

currentForm == IF isSigninMode THEN signinForm ELSE signupForm

\* currentForm().valid
CurrentFormValid ==
  IF isSigninMode THEN SigninValid(signinForm) ELSE SignupValid(signupForm)

\* The controls untouched, their values kept
ResetTouchedOnly(form) == [form EXCEPT !.touched = {}]

\* FormGroup.reset(): every control null, untouched
Reset(form) ==
  [value |-> [k \in DOMAIN form.value |-> Null], touched |-> {}]

\* The user types: the values change, touched does not
SetValue(form, values) == [form EXCEPT !.value = values]

\* No control marked
MarkNoneAsTouched(form) == form

\* markAsTouched() on every control of the form
MarkAllAsTouched(form) == [form EXCEPT !.touched = DOMAIN form.value]

AllTouched(form) == form.touched = DOMAIN form.value

\* isSubmitting left set when the handler throws
SubmittingClearedOnSuccess(outcome) ==
  IF outcome = "resolved" THEN FALSE ELSE isSubmitting

\* isSubmitting after the finally block of onSubmit()
SubmittingAfterHandler(outcome) == FALSE

\* The handler run whatever the mode
HandlerAlwaysSignin(mode) == "handleSignin"

\* if (this.isSigninMode()) handleSignin else handleSignup
HandlerOf(mode) == IF mode = "signin" THEN "handleSignin" ELSE "handleSignup"

\* The delay of the simulated call of a handler
DelayOf(handler) == IF handler = "handleSignin" THEN SigninDelay ELSE SignupDelay

\* The i-th submission in flight can be the next to finish: every submission
\* started before it has a longer delay
CanFinishNext(i) ==
  \A j \in 1..(i - 1) :
    DelayOf(submissions[j].handler) > DelayOf(submissions[i].handler)

\* The sequence without its i-th element
RemoveAt(seq, i) ==
  [k \in 1..(Len(seq) - 1) |-> IF k < i THEN seq[k] ELSE seq[k + 1]]

\* The history entry of switchAuthMode(mode)
SwitchOp(mode) ==
  IF mode = "signin" THEN "switchAuthMode(signin)" ELSE "switchAuthMode(signup)"

\* switchAuthMode(mode)
SwitchAuthMode(mode) ==
  /\ authMode' = mode
  /\ signinForm' = Reset(signinForm)
  /\ signupForm' = Reset(signupForm)
  /\ showForgotPasswordForm' = FALSE
  /\ forgotPasswordSuccess' = FALSE
  /\ authOp' = SwitchOp(mode)
  /\ UNCHANGED <<isSubmitting, isSubmittingForgotPassword, forgotPasswordForm,
                 submissions, forgotSubmissions, successTimers>>
  /\ UNCHANGED <<pastVars, homeVars>>

\* showForgotPassword()
ShowForgotPassword ==
  /\ showForgotPasswordForm' = TRUE
  /\ forgotPasswordSuccess' = FALSE
  /\ authOp' = "showForgotPassword"
  /\ UNCHANGED <<authMode, isSubmitting, isSubmittingForgotPassword,
                 signinForm, signupForm, forgotPasswordForm, submissions,
                 forgotSubmissions, successTimers>>
  /\ UNCHANGED <<pastVars, homeVars>>

\* hideForgotPassword()
HideForgotPassword ==
  /\ showForgotPasswordForm' = FALSE
  /\ forgotPasswordForm' = Reset(forgotPasswordForm)
  /\ forgotPasswordSuccess' = FALSE
  /\ authOp' = "hideForgotPassword"
  /\ UNCHANGED <<authMode, isSubmitting, isSubmittingForgotPassword,
                 signinForm, signupForm, submissions, forgotSubmissions,
                 successTimers>>
  /\ UNCHANGED <<pastVars, homeVars>>

\* The user fills in the form on display: the current form
InputCurrentForm ==
  /\ IF isSigninMode
     THEN /\ \E values \in SigninContents :
               signinForm' = SetValue(signinForm, values)
          /\ UNCHANGED signupForm
     ELSE /\ \E values \in SignupContents :
               signupForm' = SetValue(signupForm, values)
          /\ UNCHANGED signinForm
  /\ authOp' = "input"
  /\ UNCHANGED <<authMode, isSubmitting, showForgotPasswordForm,
                 isSubmittingForgotPassword, forgotPasswordSuccess,
                 forgotPasswordForm, submissions, forgotSubmissions,
                 successTimers>>
  /\ UNCHANGED <<pastVars, homeVars>>

\* The user fills in the forgot-password form while it is shown
InputForgotPasswordForm ==
  /\ showForgotPasswordForm
  /\ \E values \in ForgotContents :
       forgotPasswordForm' = SetValue(forgotPasswordForm, values)
  /\ authOp' = "input"
  /\ UNCHANGED <<authMode, isSubmitting, showForgotPasswordForm,
                 isSubmittingForgotPassword, forgotPasswordSuccess,
                 signinForm, signupForm, submissions, forgotSubmissions,
                 successTimers>>
  /\ UNCHANGED <<pastVars, homeVars>>

\* onSubmit() up to its await: the invalid form is marked and nothing is
\* started; the valid form sets isSubmitting and starts the handler of the mode
OnSubmit ==
  /\ IF ~CurrentFormValid
     THEN /\ IF isSigninMode
             THEN /\ signinForm' = MarkAllAsTouched(signinForm)
                  /\ UNCHANGED signupForm
             ELSE /\ signupForm' = MarkAllAsTouched(signupForm)
                  /\ UNCHANGED signinForm
          /\ UNCHANGED <<isSubmitting, submissions>>
     ELSE /\ Len(submissions) < MaxInFlight
          /\ isSubmitting' = TRUE
          /\ submissions' =
               Append(submissions,
                      [mode |-> authMode,
                       form |-> currentFormName,
                       handler |-> HandlerOf(authMode)])
          /\ UNCHANGED <<signinForm, signupForm>>
  /\ authOp' = "onSubmit"
  /\ UNCHANGED <<authMode, showForgotPasswordForm, isSubmittingForgotPassword,
                 forgotPasswordSuccess, forgotPasswordForm, forgotSubmissions,
                 successTimers>>
  /\ UNCHANGED <<pastVars, homeVars>>

\* onSubmit() after its await: the handler of the i-th submission in flight
\* settles; a rejection is caught; finally
HandlerSettles(i, outcome) ==
  /\ i \in 1..Len(submissions)
  /\ CanFinishNext(i)
  /\ submissions' = RemoveAt(submissions, i)
  /\ isSubmitting' = SubmittingAfterHandler(outcome)
  /\ authOp' = "handlerSettled"
  /\ UNCHANGED <<authMode, showForgotPasswordForm, isSubmittingForgotPassword,
                 forgotPasswordSuccess, signinForm, signupForm,
                 forgotPasswordForm, forgotSubmissions, successTimers>>
  /\ UNCHANGED <<pastVars, homeVars>>

\* onForgotPasswordSubmit() up to its await
OnForgotPasswordSubmit ==
  /\ IF ~ForgotValid(forgotPasswordForm)
     THEN /\ forgotPasswordForm' = MarkAllAsTouched(forgotPasswordForm)
          /\ UNCHANGED <<isSubmittingForgotPassword, forgotSubmissions>>
     ELSE /\ forgotSubmissions + successTimers < MaxForgotPending
          /\ isSubmittingForgotPassword' = TRUE
          /\ forgotSubmissions' = forgotSubmissions + 1
          /\ UNCHANGED forgotPasswordForm
  /\ authOp' = "onForgotPasswordSubmit"
  /\ UNCHANGED <<authMode, isSubmitting, showForgotPasswordForm,
                 forgotPasswordSuccess, signinForm, signupForm, submissions,
                 successTimers>>
  /\ UNCHANGED <<pastVars, homeVars>>

\* onForgotPasswordSubmit() after its await: success is shown, the form is
\* hidden and reset, the 5 s timer is started; a rejection is caught; finally
ForgotPasswordSettles(outcome) ==
  /\ forgotSubmissions > 0
  /\ forgotSubmissions' = forgotSubmissions - 1
  /\ IF outcome = "resolved"
     THEN /\ forgotPasswordSuccess' = TRUE
          /\ showForgotPasswordForm' = FALSE
          /\ forgotPasswordForm' = Reset(forgotPasswordForm)
          /\ successTimers' = successTimers + 1
     ELSE UNCHANGED <<forgotPasswordSuccess, showForgotPasswordForm,
                      forgotPasswordForm, successTimers>>
  /\ isSubmittingForgotPassword' = FALSE
  /\ authOp' = "forgotPasswordSettled"
  /\ UNCHANGED <<authMode, isSubmitting, signinForm, signupForm, submissions>>
  /\ UNCHANGED <<pastVars, homeVars>>

\* The callback of setTimeout(..., 5000) runs
SuccessTimerFires ==
  /\ successTimers > 0
  /\ successTimers' = successTimers - 1
  /\ forgotPasswordSuccess' = FALSE
  /\ authOp' = "successTimer"
  /\ UNCHANGED <<authMode, isSubmitting, showForgotPasswordForm,
                 isSubmittingForgotPassword, signinForm, signupForm,
                 forgotPasswordForm, submissions, forgotSubmissions>>
  /\ UNCHANGED <<pastVars, homeVars>>

HandlerStep ==
  \E i \in 1..MaxInFlight : \E outcome \in Outcomes : HandlerSettles(i, outcome)

ForgotPasswordStep == \E outcome \in Outcomes : ForgotPasswordSettles(outcome)

AuthNext ==
  \/ \E mode \in {"signin", "signup"} : SwitchAuthMode(mode)
  \/ ShowForgotPassword
  \/ HideForgotPassword
  \/ InputCurrentForm
  \/ InputForgotPasswordForm
  \/ OnSubmit
  \/ HandlerStep
  \/ OnForgotPasswordSubmit
  \/ ForgotPasswordStep
  \/ SuccessTimerFires

\* The components after construction; PastMeetupsComponent stays idle, so one
\* clock reading of its filter is enough
AuthSpecInit == Init /\ evalNow = 1

\* A timer that was set fires
SpecAuth ==
  /\ AuthSpecInit /\ [][AuthNext]_vars
  /\ WF_vars(HandlerStep) /\ WF_vars(ForgotPasswordStep)
  /\ WF_vars(SuccessTimerFires)

----------------------------------------------------------------------------
(* Properties                                                              *)

\* Math.max(1, x)
MaxOneAnd(x) ==
  CASE x.kind = "num" -> Num(MathMax(1, x.val))
    [] x.kind = "inf" -> PosInfinity
    [] x.kind = "nan" -> NaN

\* C1 - Clamp invariant: in every reachable state
\* 1 <= currentPage <= max(1, totalPages).
\* (Stated for itemsPerPage >= 1, where it does not depend on C5.)
ClampInvariant ==
  itemsPerPage >= 1 =>
    (1 <= currentPage /\ JsLessEq(currentPage, MaxOneAnd(totalPages)))

\* The pages 1..n, each as shown after goToPage(p), one after the other
RECURSIVE ConcatPages(_)
ConcatPages(n) ==
  IF n <= 0 THEN <<>>
  ELSE ConcatPages(n - 1) \o PageOf(GoToPageResult(n))

\* C2 - Page coverage: for itemsPerPage >= 1, the page slices obtained after
\* goToPage(1), ..., goToPage(totalPages), concatenated, are filteredMeetups:
\* same records, same order, none twice, none missing.
PageCoverage ==
  itemsPerPage >= 1 =>
    /\ totalPages.kind = "num"
    /\ ConcatPages(totalPages.val) = filteredMeetups

\* Scenario B: five per page, six records, goToPage(2) shows one record.
PageCoverageWitness ==
  /\ lastOp = "goToPage" /\ lastArg = 2
  /\ itemsPerPage = 5
  /\ Len(filteredMeetups) = 6
  /\ totalPages = Num(2)
  /\ currentPage = 2
  /\ Len(paginatedMeetups) = 1

\* C3 - goToPage(n) sets currentPage to n only when 1 <= n <= totalPages;
\* for every other n it changes neither currentPage nor any other part of
\* the query state.
GoToPageContract ==
  [][lastOp' = "goToPage" =>
       /\ IF lastArg' >= 1 /\ JsLessEq(lastArg', totalPages)
          THEN currentPage' = lastArg'
          ELSE currentPage' = currentPage
       /\ UNCHANGED <<meetups, searchTerm, dateFilter, attendanceFilter,
                      itemsPerPage, evalNow>>]_vars

\* Scenario E: goToPage beyond the last of two pages leaves page 2 current.
GoToPageWitness ==
  /\ lastOp = "goToPage"
  /\ totalPages = Num(2)
  /\ lastArg > 2
  /\ currentPage = 2

\* C4 - nextPage() and previousPage() change currentPage by exactly one and
\* only to a destination within [1, totalPages]; otherwise they change
\* nothing.  (Stated for itemsPerPage >= 1, where it does not depend on C5.)
StepWithinRange ==
  [][(/\ itemsPerPage >= 1
      /\ lastOp' \in {"nextPage", "previousPage"}
      /\ currentPage' # currentPage) =>
       /\ currentPage' = (IF lastOp' = "nextPage" THEN currentPage + 1
                                                   ELSE currentPage - 1)
       /\ 1 <= currentPage'
       /\ JsLessEq(currentPage', totalPages)]_vars

\* C5 - a non-positive itemsPerPage is rejected, so itemsPerPage >= 1 and
\* totalPages is a non-negative integer in every reachable state.
ItemsPerPagePositive ==
  /\ itemsPerPage >= 1
  /\ totalPages.kind = "num"
  /\ totalPages.val >= 0

\* C6 - the current page's records are the slice of filteredMeetups that
\* starts at (currentPage - 1) * itemsPerPage and has at most itemsPerPage
\* records, and it is not empty when filteredMeetups is not empty.
\* (Stated for itemsPerPage >= 1, where it does not depend on C5.)
CurrentPageSlice ==
  LET first == (currentPage - 1) * itemsPerPage
      filtered == filteredMeetups
      page == paginatedMeetups
  IN  itemsPerPage >= 1 =>
      /\ Len(page) <= itemsPerPage
      /\ first >= 0
      /\ \A i \in 1..Len(page) :
           /\ first + i <= Len(filtered)
           /\ page[i] = filtered[first + i]
      /\ (Len(page) < itemsPerPage => first + Len(page) >= Len(filtered))
      /\ (filtered # <<>> => page # <<>>)

\* k is the ceiling of a / b, b not 0
IsCeiling(k, a, b) ==
  IF b > 0 THEN k * b >= a /\ (k - 1) * b < a
           ELSE k * b <= a /\ (k - 1) * b > a

\* C7 - totalPages is ceil(filteredMeetups.length / itemsPerPage); when no
\* record matches, totalPages = 0, the current page is empty,
\* getPageNumbers() is empty and currentPage >= 1.
DegenerateView ==
  /\ itemsPerPage # 0 =>
       /\ totalPages.kind = "num"
       /\ IsCeiling(totalPages.val, Len(filteredMeetups), itemsPerPage)
  /\ (filteredMeetups = <<>> =>
        /\ totalPages = Num(0)
        /\ paginatedMeetups = <<>>
        /\ getPageNumbers = <<>>
        /\ currentPage >= 1)

\* The bucket of an attendance count, as documented
InBucket(a, f) ==
  CASE f = "low"    -> a < 20
    [] f = "medium" -> 20 <= a /\ a <= 50
    [] f = "high"   -> a > 50

Buckets == {"low", "medium", "high"}

\* The filter applied to a record with the attendance count a
BucketsOf(a) ==
  {f \in Buckets : AttendanceMatches([totalAttendance |-> a], f)}

\* C8 - Attendance bucketing: low is < 20, medium is 20..50, high is > 50;
\* every count is in exactly one bucket, and with attendanceFilter = f, f not
\* all, filteredMeetups is exactly the records passing the other filters
\* whose totalAttendance is in bucket f.
AttendanceBucketing ==
  /\ \A a \in 0..MaxAttendance :
       /\ Cardinality(BucketsOf(a)) = 1
       /\ \A f \in Buckets : (f \in BucketsOf(a)) <=> InBucket(a, f)
  /\ attendanceFilter # "all" =>
       filteredMeetups =
         SelectSeq(FilterMeetups(meetups, searchTerm, dateFilter, "all",
                                 Nows[evalNow]),
                   LAMBDA m : InBucket(m.totalAttendance, attendanceFilter))

\* Scenario A: the filter high leaves exactly the record with 52 attendees.
AttendanceBucketingWitness ==
  /\ lastOp = "setAttendanceFilter"
  /\ attendanceFilter = "high"
  /\ searchTerm = <<>> /\ dateFilter = "all"
  /\ Len(filteredMeetups) = 1
  /\ filteredMeetups[1].totalAttendance = 52

\* a is b with some elements left out
RECURSIVE IsSubsequence(_, _)
IsSubsequence(a, b) ==
  IF a = <<>> THEN TRUE
  ELSE IF b = <<>> THEN FALSE
  ELSE IF Head(a) = Head(b) THEN IsSubsequence(Tail(a), Tail(b))
  ELSE IsSubsequence(a, Tail(b))

\* C9 - filteredMeetups is a subsequence of the backing list (no foreign
\* record, no more records than the list, the list's relative order), and no
\* operation modifies the backing list.
FilteredIsSubsequence ==
  /\ IsSubsequence(filteredMeetups, meetups)
  /\ Len(filteredMeetups) <= Len(meetups)
  /\ meetups = MockMeetups

\* A search that keeps the records 1, 2, 4 and 6 of the six.
FilteredIsSubsequenceWitness ==
  /\ lastOp = "setSearchTerm"
  /\ searchTerm # <<>>
  /\ Len(filteredMeetups) = 4
  /\ filteredMeetups[2].id = 2
  /\ filteredMeetups[3].id = 4

\* text contains term, case ignored
ContainsIgnoringCase(text, term) ==
  Includes(ToLowerCase(text), ToLowerCase(term))

\* The three predicates of the query, each disabled by its neutral value
PassesSearch(m) ==
  searchTerm = <<>> \/ ContainsIgnoringCase(m.title, searchTerm)
                    \/ ContainsIgnoringCase(m.presenter, searchTerm)
PassesDate(m) ==
  dateFilter = "all" \/ m.date >= FilterDate(dateFilter, Nows[evalNow])
PassesAttendance(m) ==
  attendanceFilter = "all" \/ InBucket(m.totalAttendance, attendanceFilter)

\* C10 - a record is in filteredMeetups if and only if it passes the search
\* predicate, the date-range predicate and the attendance predicate together.
FilteredIffAllPredicates ==
  LET filtered == filteredMeetups
  IN  \A i \in 1..Len(meetups) :
        (\E j \in 1..Len(filtered) : filtered[j] = meetups[i])
          <=> (PassesSearch(meetups[i]) /\ PassesDate(meetups[i])
                 /\ PassesAttendance(meetups[i]))

\* All three filters active: a record matched by its presenter only is kept,
\* others are dropped by the date and by the search.
FilteredIffAllPredicatesWitness ==
  /\ searchTerm # <<>> /\ dateFilter # "all" /\ attendanceFilter # "all"
  /\ Len(filteredMeetups) = 2
  /\ filteredMeetups[2].id = 2

\* Midnight that begins 1 January of the year of the clock reading now
StartOfYear(now) == MakeTime(now.year, 0, 1, 0)

PageNumbersWindow ==
  LET pages == getPageNumbers
      start == MathMax(1, currentPage - 2)
  IN  /\ Len(pages) <= 5
      /\ \A i \in 1..Len(pages) :
           /\ pages[i] = start + i - 1
           /\ pages[i] >= 1
           /\ JsLessEq(pages[i], totalPages)
      /\ \A k \in start..(start + 4) :
           JsLessEq(k, totalPages) => Len(pages) >= k - start + 1

\* Page 3 of 3: the window is 1, 2, 3.
PageNumbersWindowWitness ==
  /\ currentPage = 3
  /\ totalPages = Num(3)
  /\ getPageNumbers = <<1, 2, 3>>

\* The derived view when filteredMeetups is evaluated at the clock reading t
DerivedViewAt(t) ==
  LET filtered == FilterMeetups(meetups, searchTerm, dateFilter,
                                attendanceFilter, Nows[t])
      start == (currentPage - 1) * itemsPerPage
  IN  [filteredRecords |-> filtered,
       totalPages |-> CeilDiv(Len(filtered), itemsPerPage),
       currentPageRecords |-> JsSlice(filtered, start, start + itemsPerPage)]

\* The derived view of the state
DerivedViewNow ==
  [filteredRecords |-> filteredMeetups,
   totalPages |-> totalPages,
   currentPageRecords |-> paginatedMeetups]

\* C14 (as claimed) - the derived view is a function of the record list and
\* the query state only: the same query state gives the same view at
\* whatever clock reading it is reached and evaluated.
ViewDeterminedByQuery ==
  \A t \in evalNow..Len(Nows) : DerivedViewAt(t) = DerivedViewNow

\* C14 (amended) - with dateFilter = all the derived view is a function of
\* the record list and the query state only: the clock reading of the
\* evaluation does not change it.
ViewDeterminedWithoutDateFilter ==
  dateFilter = "all" =>
    \A t \in 1..Len(Nows) : DerivedViewAt(t) = DerivedViewNow

\* The search was set at the latest clock reading with no date filter.
ViewDeterminedWitness ==
  /\ lastOp = "setSearchTerm"
  /\ dateFilter = "all"
  /\ searchTerm # <<>>
  /\ evalNow = Len(Nows)
  /\ Len(filteredMeetups) = 4

\* C15 - whenever totalPages >= 1, getPageNumbers() contains currentPage.
\* (Stated for itemsPerPage >= 1, where it does not depend on C5.)
CurrentPageListed ==
  LET pages == getPageNumbers
  IN  (itemsPerPage >= 1 /\ totalPages.val >= 1) =>
        \E i \in 1..Len(pages) : pages[i] = currentPage

\* The spans of the segments of a gradient, added up
RECURSIVE SpanSum(_)
SpanSum(g) ==
  IF g = <<>> THEN 0 ELSE (Head(g).to - Head(g).from) + SpanSum(Tail(g))

\* The gradient of (new, total) is as documented
GradientAsDocumented(g, new, total) ==
  IF total = 0
  THEN Len(g) = 1 /\ g[1].from = 0 /\ g[1].to = 360
  ELSE LET a == RoundHalfUp(360 * new, total)
       IN  /\ Len(g) = 2
           /\ g[1].from = 0 /\ g[1].to = a
           /\ g[2].from = a /\ g[2].to = 360
           /\ 0 <= a /\ a <= 360
           /\ SpanSum(g) = 360

\* C13 - Gradient total: for totalCount > 0 and 0 <= newCount <= totalCount
\* the gradient is the two segments [0, a) and [a, 360) with
\* a = round(newCount / totalCount * 360), 0 <= a <= 360, spans adding up to
\* 360; for totalCount = 0 it is one neutral segment from 0 to 360.
GradientTotal ==
  /\ GradientAsDocumented(pieChartGradient, attendanceData.newRegistrations,
                          attendanceData.total)
  /\ \A i \in 1..Len(meetups) :
       GradientAsDocumented(getPieChartGradient(meetups[i]),
                            meetups[i].newRegistrations,
                            meetups[i].totalAttendance)

\* The angle of the home pie chart: where its first segment ends
HomePieAngle == pieChartGradient[1].to

\* C16 - after any updateAttendanceData(n, r) calls, negative arguments
\* included: newRegistrations >= 0, returningMembers >= 0,
\* total = newRegistrations + returningMembers, and the angle of the home pie
\* chart is within [0, 360].
AttendanceNonNegative ==
  /\ newRegistrations >= 0
  /\ returningMembers >= 0
  /\ attendanceData.newRegistrations = newRegistrations
  /\ attendanceData.returningMembers = returningMembers
  /\ attendanceData.total = newRegistrations + returningMembers
  /\ 0 <= HomePieAngle /\ HomePieAngle <= 360

\* updateAttendanceData with a negative count and a positive one.
AttendanceNonNegativeWitness ==
  /\ homeOp.op = "updateAttendanceData"
  /\ homeOp.new < 0 /\ homeOp.returning > 0
  /\ newRegistrations = 0
  /\ returningMembers = homeOp.returning
  /\ HomePieAngle = 0

\* C17 - QR loading protocol: isLoadingQr starts true and eventually becomes
\* false whether the generation succeeds or fails; once loading has finished
\* qrDataUrl is non-null exactly when the generation succeeded; qrDataUrl is
\* null as long as the initial load is in progress.
QrLoadingProtocol ==
  /\ isLoadingQr = TRUE
  /\ <>(~isLoadingQr)
  /\ [](~isLoadingQr => ((qrDataUrl # Null) <=> qrPc = "succeeded"))
  /\ [](~isLoadingQr => qrPc \in {"succeeded", "failed"})
  /\ [](isLoadingQr => qrDataUrl = Null)

\* The generation failed in toDataURL: loading is over, no data URL.
QrLoadingProtocolWitness ==
  /\ qrPc = "failed"
  /\ ~isLoadingQr
  /\ qrDataUrl = Null

\* C18 - onSubmit() on an invalid current form performs no submission: every
\* control of the current form is marked touched, isSubmitting is left
\* unchanged, and neither the sign-in nor the sign-up handler is started.
InvalidSubmitStartsNothing ==
  [][(authOp' = "onSubmit" /\ ~CurrentFormValid) =>
       /\ AllTouched(currentForm')
       /\ currentForm'.value = currentForm.value
       /\ isSubmitting' = isSubmitting
       /\ submissions' = submissions]_vars

\* onSubmit() was called on the untouched sign-up form whose passwords differ.
InvalidSubmitWitness ==
  /\ authOp = "onSubmit"
  /\ ~isSigninMode
  /\ ~PasswordsMatch(signupForm.value)
  /\ AllTouched(signupForm)
  /\ ~isSubmitting
  /\ submissions = <<>>

\* C19 - every onSubmit() on a valid form sets isSubmitting to true before
\* the handler starts and isSubmitting is eventually set back to false when
\* the handler finishes, whether it succeeds or throws; likewise every valid
\* onForgotPasswordSubmit() eventually returns isSubmittingForgotPassword to
\* false.
SubmittingEventuallyCleared ==
  /\ [][(authOp' = "onSubmit" /\ CurrentFormValid) =>
          (isSubmitting' /\ Len(submissions') = Len(submissions) + 1)]_vars
  /\ [][Len(submissions') < Len(submissions) => ~isSubmitting']_vars
  /\ (isSubmitting = TRUE) ~> (isSubmitting = FALSE)
  /\ [][(authOp' = "onForgotPasswordSubmit" /\ ForgotValid(forgotPasswordForm))
          => isSubmittingForgotPassword']_vars
  /\ [][forgotSubmissions' < forgotSubmissions
          => ~isSubmittingForgotPassword']_vars
  /\ (isSubmittingForgotPassword = TRUE) ~> (isSubmittingForgotPassword = FALSE)

\* The handler of the only submission has finished.
SubmittingClearedWitness ==
  /\ authOp = "handlerSettled"
  /\ submissions = <<>>
  /\ ~isSubmitting

\* C20 - isSubmitting is true whenever at least one sign-in/sign-up
\* submission is in flight, for every interleaving of onSubmit() calls and
\* handler completions.
SubmittingWhileInFlight == Len(submissions) > 0 => isSubmitting

\* C21 - the handler run by onSubmit() corresponds to the form that was
\* validated: a submission started in signin mode validates signinForm and
\* runs the sign-in handler, one started in signup mode validates signupForm
\* and runs the sign-up handler, even when switchAuthMode() is called while
\* the submission is in flight.
HandlerMatchesValidatedForm ==
  \A i \in 1..Len(submissions) :
    LET sub == submissions[i]
    IN  IF sub.mode = "signin"
        THEN sub.form = "signinForm" /\ sub.handler = "handleSignin"
        ELSE sub.form = "signupForm" /\ sub.handler = "handleSignup"

\* A sign-up submission is in flight and the mode was switched to signin.
HandlerMatchesWitness ==
  /\ authOp = SwitchOp("signin")
  /\ authMode = "signin"
  /\ Len(submissions) = 1
  /\ submissions[1].mode = "signup"
  /\ submissions[1].handler = "handleSignup"

\* Every control of the form is null and untouched
IsReset(form) ==
  /\ \A k \in DOMAIN form.value : form.value[k] = Null
  /\ form.touched = {}

\* C22 - switchAuthMode(mode) sets authMode to mode, resets both the sign-in
\* and the sign-up form, and sets showForgotPasswordForm and
\* forgotPasswordSuccess to false; it leaves isSubmitting,
\* isSubmittingForgotPassword and the forgot-password form unchanged.
SwitchAuthModeContract ==
  [][\A mode \in {"signin", "signup"} :
       authOp' = SwitchOp(mode) =>
         /\ authMode' = mode
         /\ IsReset(signinForm') /\ IsReset(signupForm')
         /\ showForgotPasswordForm' = FALSE
         /\ forgotPasswordSuccess' = FALSE
         /\ isSubmitting' = isSubmitting
         /\ isSubmittingForgotPassword' = isSubmittingForgotPassword
         /\ forgotPasswordForm' = forgotPasswordForm]_vars

\* switchAuthMode("signup") during a sign-in submission, with a filled-in
\* forgot-password form.
SwitchAuthModeWitness ==
  /\ authOp = SwitchOp("signup")
  /\ authMode = "signup"
  /\ isSubmitting
  /\ IsReset(signinForm) /\ IsReset(signupForm)
  /\ ~showForgotPasswordForm
  /\ forgotPasswordForm.value.email = "ada@example.com"

====
